---- MODULE Spec2Model ----
(***************************************************************************)
(* ArgoQualityController (src/src/quality_control/qc_controller.py): the   *)
(* run statistics, clean_profile_data and get_statistics, called from      *)
(* worker threads that share one controller.  A statement that reads or    *)
(* writes self.stats is one step of a thread; `x += 1` on a dict entry is  *)
(* a read followed by a write, and another thread may run in between.      *)
(***************************************************************************)
EXTENDS Integers, Sequences, FiniteSets, TLC

\* ---------------------------------------------------------------- bounds
NThreads == 2      \* threads sharing the controller
MaxCalls == 3      \* clean_profile_data calls begun in one behaviour
MaxLen == 2        \* longest measurement array of an input profile
MaxMonths == 3     \* longest (year, month) list given to a run

Threads == 1..NThreads
MainThread == 1

\* ------------------------------------------------------- profile records
\* One array element: <<>> is the missing sentinel, <<v>> a present value.
Missing == <<>>
TempValues == {Missing, <<10>>}
PsalValues == {Missing, <<35>>}
PresValues == {Missing, <<5>>, <<10>>}
TrackedVariables == {"TEMP", "PSAL", "PRES"}

Arrays(S) == UNION {[1..n -> S] : n \in 0..MaxLen}

\* PLATFORM_NUMBER arrives as text or as a number: <<type, digits>>.
PlatformValues == {<<"str", "1901">>, <<"int", "1901">>}
CycleValues == {7}

\* The identity keys a profile dict may or may not carry.
IdDicts ==
    {<<>>}
    \cup {[PLATFORM_NUMBER |-> p] : p \in PlatformValues}
    \cup {[CYCLE_NUMBER |-> c] : c \in CycleValues}
    \cup {[PLATFORM_NUMBER |-> p, CYCLE_NUMBER |-> c] :
            p \in PlatformValues, c \in CycleValues}

\* Every dict a sequential caller may pass: arrays of any length up to
\* MaxLen, lengths not tied to each other, pressures in any order.
Profiles ==
    {id @@ [TEMP |-> t, PSAL |-> s, PRES |-> p] :
        id \in IdDicts, t \in Arrays(TempValues),
        s \in Arrays(PsalValues), p \in Arrays(PresValues)}

\* The dicts the concurrent callers pass: distinct profiles, one without
\* identity keys and two with the same identity under different raw
\* representations of the platform number.
ConcProfiles ==
    {id @@ [TEMP |-> <<<<10>>, Missing>>, PSAL |-> <<<<35>>, <<35>>>>,
            PRES |-> <<<<5>>, <<10>>>>] :
        id \in {i \in IdDicts : DOMAIN i \in {{}, {"PLATFORM_NUMBER",
                                                   "CYCLE_NUMBER"}}}}

\* dict.get(key, default)
Get(d, key, default) == IF key \in DOMAIN d THEN d[key] ELSE default

\* str(x) of a platform number: text stays, a number prints its digits.
Str(x) == IF x = "unknown" THEN "unknown" ELSE x[2]

\* ------------------------------------------------------- run statistics
\* __init__: every counter starts at zero.
InitStats ==
    [total_profiles |-> 0, profiles_processed |-> 0, profiles_rejected |-> 0,
     outliers_detected |-> 0, spikes_detected |-> 0,
     gradient_anomalies_detected |-> 0, density_inversions_detected |-> 0]

StatKeys == DOMAIN InitStats

\* ------------------------------------------------ clean_profile_data body
\* profile_id = f"{platform_number}_{cycle_number}"
ProfileId(d) ==
    Str(Get(d, "PLATFORM_NUMBER", "unknown")) \o "_"
        \o ToString(Get(d, "CYCLE_NUMBER", 0))

\* A faulty variant of Copy: a cleaning step that drops the missing points from the
\* measurement arrays instead of keeping them in place.
Copy_DropMissing(d) ==
    [k \in DOMAIN d |->
        IF k \in TrackedVariables
          THEN SelectSeq(d[k], LAMBDA x : x # Missing)
          ELSE d[k]]

\* cleaned_data = data.copy(): a new dict with the same keys and values.
Copy(d) == [k \in DOMAIN d |-> d[k]]

\* A faulty variant of MakeReport: the quality label one class too high for the
\* percentage the report carries.
MakeReport_Excellent(d) ==
    [profile_id |-> ProfileId(d),
     total_measurements |-> 100,
     good_data_percentage |-> 85,
     flags_summary |-> <<>>,
     outliers_removed |-> 0,
     spike_detections |-> 0,
     gradient_anomalies |-> 0,
     density_inversions |-> 0,
     data_quality |-> "excellent",
     issues |-> <<>>,
     metadata |-> <<>>]

\* The QCReport the function builds (flags_summary, issues and metadata
\* are empty containers).
MakeReport(d) ==
    [profile_id |-> ProfileId(d),
     total_measurements |-> 100,
     good_data_percentage |-> 85,
     flags_summary |-> <<>>,
     outliers_removed |-> 0,
     spike_detections |-> 0,
     gradient_anomalies |-> 0,
     density_inversions |-> 0,
     data_quality |-> "good",
     issues |-> <<>>,
     metadata |-> <<>>]

\* --------------------------------------------------- get_statistics body
RECURSIVE GCD(_, _)
GCD(a, b) == IF b = 0 THEN a ELSE GCD(b, a % b)

\* An exact quotient <<numerator, denominator>> in lowest terms.
Frac(n, d) == LET g == GCD(n, d) IN <<n \div g, d \div g>>

\* A faulty variant of RateOf: the ratio without the factor 100.
RateOf_NoPercent(processed, total) == Frac(processed, total)

\* (profiles_processed / total_profiles) * 100
RateOf(processed, total) == Frac(processed * 100, total)

\* success_rate = 0.0
ZeroRate == <<0, 1>>

\* -------------------------------------------------- __init__: thresholds
\* Limits are written in hundredths (-2.5 is -250); min_profile_length is
\* an integer in the code and stays one.
ThresholdKeys ==
    {"TEMP", "PSAL", "PRES", "density_inversion_threshold",
     "min_good_data_percentage", "max_depth_gap", "min_profile_length"}

\* _get_default_thresholds()
DefaultThresholds ==
    [TEMP |-> [min |-> -250, max |-> 4000, spike_threshold |-> 500,
               gradient_threshold |-> 200],
     PSAL |-> [min |-> 200, max |-> 4200, spike_threshold |-> 200,
               gradient_threshold |-> 100],
     PRES |-> [min |-> 0, max |-> 1100000, spike_threshold |-> 10000,
               gradient_threshold |-> 5000],
     density_inversion_threshold |-> 5,
     min_good_data_percentage |-> 7000,
     max_depth_gap |-> 50000,
     min_profile_length |-> 5]

\* What a configuration file supplies for a key when it supplies it: a
\* value other than the default.
SuppliedThresholds ==
    [TEMP |-> [min |-> -200, max |-> 3500, spike_threshold |-> 400,
               gradient_threshold |-> 150],
     PSAL |-> [min |-> 0, max |-> 4100, spike_threshold |-> 150,
               gradient_threshold |-> 50],
     PRES |-> [min |-> 0, max |-> 600000, spike_threshold |-> 5000,
               gradient_threshold |-> 2500],
     density_inversion_threshold |-> 3,
     min_good_data_percentage |-> 8000,
     max_depth_gap |-> 25000,
     min_profile_length |-> 10]

\* The 'thresholds' mappings a configuration may carry: any subset of the
\* keys, the empty one included.
ThresholdDicts ==
    {[k \in K |-> SuppliedThresholds[k]] : K \in SUBSET ThresholdKeys}

\* The arguments of ArgoQualityController(config): None, a dict without a
\* 'thresholds' entry, a dict with one.
NoneArg == [kind |-> "None"]
ConfigArgs ==
    {NoneArg, [kind |-> "dict", d |-> <<>>]}
    \cup {[kind |-> "dict", d |-> [thresholds |-> th]] : th \in ThresholdDicts}

\* config or {}
OrEmpty(arg) == IF arg.kind = "None" THEN <<>> ELSE arg.d

\* self.config.get('thresholds', self._get_default_thresholds())
ThresholdsOf(cfg) == Get(cfg, "thresholds", DefaultThresholds)

\* ------------------------------------------------------------------ state
VARIABLES
    stats,          \* self.stats
    pc,             \* pc[t]: where thread t stands
    data,           \* data[t]: the argument of t's clean_profile_data call
    tmp,            \* tmp[t]: the counter value t has read and not yet used
    cleaned_data,   \* cleaned_data[t]
    qc_report,      \* qc_report[t]
    success_rate,   \* success_rate[t] of t's get_statistics call
    ret,            \* ret[t]: what t's last call returned
    calls,          \* clean_profile_data calls begun so far
    init_arg,       \* the config argument of the constructor
    constructed,    \* whether __init__ has run
    config,         \* self.config
    thresholds,     \* self.thresholds
    specific_months,    \* the specific_months argument of run
    run_pc,             \* where ArgoPipeline.run stands
    months_to_process,  \* the (year, month) list run works on
    task,               \* task[i]: the state of the i-th submitted future
    next_future,        \* the future the collecting loop looks at next
    successful_months,  \* _process_data_parallel's counter
    failed_months,      \* _process_data_parallel's list
    pending,            \* the exception propagating out of run's try body
    db_calls            \* the DatabaseManager methods called, in order

qcvars == <<stats, pc, data, tmp, cleaned_data, qc_report, success_rate, ret,
            calls>>
cfgvars == <<init_arg, constructed, config, thresholds>>
runvars == <<specific_months, run_pc, months_to_process, task, next_future, successful_months,
             failed_months, pending, db_calls>>

vars == <<qcvars, cfgvars, runvars>>

\* No ArgoPipeline.run in progress.
NoRun ==
    /\ specific_months = <<>>
    /\ run_pc = "not_started"
    /\ months_to_process = <<>>
    /\ task = <<>>
    /\ next_future = 1
    /\ successful_months = 0
    /\ failed_months = <<>>
    /\ pending = "none"
    /\ db_calls = <<>>

NoDict == <<>>
NoReturn == [kind |-> "none"]

Init ==
    /\ stats = InitStats
    /\ pc = [t \in Threads |-> "idle"]
    /\ data = [t \in Threads |-> NoDict]
    /\ tmp = [t \in Threads |-> 0]
    /\ cleaned_data = [t \in Threads |-> NoDict]
    /\ qc_report = [t \in Threads |-> NoDict]
    /\ success_rate = [t \in Threads |-> ZeroRate]
    /\ ret = [t \in Threads |-> NoReturn]
    /\ calls = 0
    /\ init_arg = NoneArg
    /\ constructed = TRUE
    /\ config = OrEmpty(init_arg)
    /\ thresholds = ThresholdsOf(config)
    /\ NoRun

\* A thread calls clean_profile_data(d), d one of the dicts in `inputs`.
CallClean(t, inputs) ==
    /\ pc[t] = "idle"
    /\ calls < MaxCalls
    /\ \E d \in inputs : data' = [data EXCEPT ![t] = d]
    /\ calls' = calls + 1
    /\ pc' = [pc EXCEPT ![t] = "load_total"]
    /\ tmp' = [tmp EXCEPT ![t] = 0]
    /\ cleaned_data' = [cleaned_data EXCEPT ![t] = NoDict]
    /\ qc_report' = [qc_report EXCEPT ![t] = NoDict]
    /\ ret' = [ret EXCEPT ![t] = NoReturn]
    /\ UNCHANGED <<stats, success_rate>>
    /\ UNCHANGED <<cfgvars, runvars>>

\* self.stats['total_profiles'] += 1, the read
LoadTotal(t) ==
    /\ pc[t] = "load_total"
    /\ tmp' = [tmp EXCEPT ![t] = stats.total_profiles]
    /\ pc' = [pc EXCEPT ![t] = "store_total"]
    /\ UNCHANGED <<stats, data, cleaned_data, qc_report, success_rate, ret,
                   calls>>
    /\ UNCHANGED <<cfgvars, runvars>>

\* self.stats['total_profiles'] += 1, the write
StoreTotal(t) ==
    /\ pc[t] = "store_total"
    /\ stats' = [stats EXCEPT !.total_profiles = tmp[t] + 1]
    /\ tmp' = [tmp EXCEPT ![t] = 0]
    /\ pc' = [pc EXCEPT ![t] = "build"]
    /\ UNCHANGED <<data, cleaned_data, qc_report, success_rate, ret, calls>>
    /\ UNCHANGED <<cfgvars, runvars>>

\* A faulty variant of Build: a report that numbers itself with the run counter.
Build_CountsFromStats(t) ==
    /\ pc[t] = "build"
    /\ cleaned_data' = [cleaned_data EXCEPT ![t] = Copy(data[t])]
    /\ qc_report' = [qc_report EXCEPT ![t] =
                        [MakeReport(data[t]) EXCEPT
                            !.total_measurements = stats.total_profiles]]
    /\ pc' = [pc EXCEPT ![t] = "load_processed"]
    /\ UNCHANGED <<stats, data, tmp, success_rate, ret, calls>>
    /\ UNCHANGED <<cfgvars, runvars>>

\* profile_id, cleaned_data = data.copy(), qc_report = QCReport(...)
Build(t) ==
    /\ pc[t] = "build"
    /\ cleaned_data' = [cleaned_data EXCEPT ![t] = Copy(data[t])]
    /\ qc_report' = [qc_report EXCEPT ![t] = MakeReport(data[t])]
    /\ pc' = [pc EXCEPT ![t] = "load_processed"]
    /\ UNCHANGED <<stats, data, tmp, success_rate, ret, calls>>
    /\ UNCHANGED <<cfgvars, runvars>>

\* self.stats['profiles_processed'] += 1, the read
LoadProcessed(t) ==
    /\ pc[t] = "load_processed"
    /\ tmp' = [tmp EXCEPT ![t] = stats.profiles_processed]
    /\ pc' = [pc EXCEPT ![t] = "store_processed"]
    /\ UNCHANGED <<stats, data, cleaned_data, qc_report, success_rate, ret,
                   calls>>
    /\ UNCHANGED <<cfgvars, runvars>>

\* A faulty variant of StoreProcessed: the call returns without counting the profile
\* as processed.
StoreProcessed_NoCount(t) ==
    /\ pc[t] = "store_processed"
    /\ tmp' = [tmp EXCEPT ![t] = 0]
    /\ ret' = [ret EXCEPT ![t] = [kind |-> "pair",
                                  cleaned_data |-> cleaned_data[t],
                                  qc_report |-> qc_report[t]]]
    /\ pc' = [pc EXCEPT ![t] = "returned"]
    /\ UNCHANGED <<stats, data, cleaned_data, qc_report, success_rate, calls>>
    /\ UNCHANGED <<cfgvars, runvars>>

\* self.stats['profiles_processed'] += 1, the write, and
\* return cleaned_data, qc_report
StoreProcessed(t) ==
    /\ pc[t] = "store_processed"
    /\ stats' = [stats EXCEPT !.profiles_processed = tmp[t] + 1]
    /\ tmp' = [tmp EXCEPT ![t] = 0]
    /\ ret' = [ret EXCEPT ![t] = [kind |-> "pair",
                                  cleaned_data |-> cleaned_data[t],
                                  qc_report |-> qc_report[t]]]
    /\ pc' = [pc EXCEPT ![t] = "returned"]
    /\ UNCHANGED <<data, cleaned_data, qc_report, success_rate, calls>>
    /\ UNCHANGED <<cfgvars, runvars>>

\* A thread calls get_statistics().
CallStats(t) ==
    /\ pc[t] = "idle"
    /\ pc' = [pc EXCEPT ![t] = "test_total"]
    /\ data' = [data EXCEPT ![t] = NoDict]
    /\ tmp' = [tmp EXCEPT ![t] = 0]
    /\ cleaned_data' = [cleaned_data EXCEPT ![t] = NoDict]
    /\ qc_report' = [qc_report EXCEPT ![t] = NoDict]
    /\ success_rate' = [success_rate EXCEPT ![t] = ZeroRate]
    /\ ret' = [ret EXCEPT ![t] = NoReturn]
    /\ UNCHANGED <<stats, calls>>
    /\ UNCHANGED <<cfgvars, runvars>>

\* if self.stats['total_profiles'] > 0: ... else: success_rate = 0.0
TestTotal(t) ==
    /\ pc[t] = "test_total"
    /\ IF stats.total_profiles > 0
         THEN /\ pc' = [pc EXCEPT ![t] = "load_rate"]
              /\ UNCHANGED success_rate
         ELSE /\ success_rate' = [success_rate EXCEPT ![t] = ZeroRate]
              /\ pc' = [pc EXCEPT ![t] = "copy_stats"]
    /\ UNCHANGED <<stats, data, tmp, cleaned_data, qc_report, ret, calls>>
    /\ UNCHANGED <<cfgvars, runvars>>

\* the left operand of the division: self.stats['profiles_processed']
LoadRate(t) ==
    /\ pc[t] = "load_rate"
    /\ tmp' = [tmp EXCEPT ![t] = stats.profiles_processed]
    /\ pc' = [pc EXCEPT ![t] = "divide"]
    /\ UNCHANGED <<stats, data, cleaned_data, qc_report, success_rate, ret,
                   calls>>
    /\ UNCHANGED <<cfgvars, runvars>>

\* the right operand, self.stats['total_profiles'], the division and * 100
Divide(t) ==
    /\ pc[t] = "divide"
    /\ success_rate' = [success_rate EXCEPT
                          ![t] = RateOf(tmp[t], stats.total_profiles)]
    /\ tmp' = [tmp EXCEPT ![t] = 0]
    /\ pc' = [pc EXCEPT ![t] = "copy_stats"]
    /\ UNCHANGED <<stats, data, cleaned_data, qc_report, ret, calls>>
    /\ UNCHANGED <<cfgvars, runvars>>

\* return {**self.stats, 'success_rate_percent': success_rate}
Snapshot(s, rate) == [kind |-> "stats", counters |-> s,
                      success_rate_percent |-> rate]

CopyStats(t) ==
    /\ pc[t] = "copy_stats"
    /\ ret' = [ret EXCEPT ![t] = Snapshot(stats, success_rate[t])]
    /\ pc' = [pc EXCEPT ![t] = "stats_returned"]
    /\ UNCHANGED <<stats, data, tmp, cleaned_data, qc_report, success_rate,
                   calls>>
    /\ UNCHANGED <<cfgvars, runvars>>

\* The caller is done with what the call returned: the names bound to the
\* result go out of scope and the thread is free for its next call.
Discard(t) ==
    /\ pc[t] \in {"returned", "stats_returned"}
    /\ pc' = [pc EXCEPT ![t] = "idle"]
    /\ data' = [data EXCEPT ![t] = NoDict]
    /\ cleaned_data' = [cleaned_data EXCEPT ![t] = NoDict]
    /\ qc_report' = [qc_report EXCEPT ![t] = NoDict]
    /\ success_rate' = [success_rate EXCEPT ![t] = ZeroRate]
    /\ ret' = [ret EXCEPT ![t] = NoReturn]
    /\ UNCHANGED <<stats, tmp, calls>>
    /\ UNCHANGED <<cfgvars, runvars>>

Step(t) ==
    \/ LoadTotal(t)
    \/ StoreTotal(t)
    \/ Build(t)
    \/ LoadProcessed(t)
    \/ StoreProcessed(t)
    \/ CallStats(t)
    \/ TestTotal(t)
    \/ LoadRate(t)
    \/ Divide(t)
    \/ CopyStats(t)
    \/ Discard(t)

\* Worker threads share the controller, as under a ThreadPoolExecutor.
Next ==
    \E t \in Threads :
        \/ CallClean(t, ConcProfiles)
        \/ Step(t)

Spec == Init /\ [][Next]_vars

\* One thread makes every call: a sequential run.
SeqNext ==
    \/ CallClean(MainThread, Profiles)
    \/ Step(MainThread)

SeqSpec == Init /\ [][SeqNext]_vars

\* ------------------------------------------------------------ construction
\* Before ArgoQualityController(config) runs: any argument, no attribute set.
CtorInit ==
    /\ init_arg \in ConfigArgs
    /\ constructed = FALSE
    /\ config = NoDict
    /\ thresholds = NoDict
    /\ stats = NoDict
    /\ pc = [t \in Threads |-> "idle"]
    /\ data = [t \in Threads |-> NoDict]
    /\ tmp = [t \in Threads |-> 0]
    /\ cleaned_data = [t \in Threads |-> NoDict]
    /\ qc_report = [t \in Threads |-> NoDict]
    /\ success_rate = [t \in Threads |-> ZeroRate]
    /\ ret = [t \in Threads |-> NoReturn]
    /\ calls = 0
    /\ NoRun

\* __init__(config)
Construct ==
    /\ ~constructed
    /\ config' = OrEmpty(init_arg)
    /\ thresholds' = ThresholdsOf(config')
    /\ stats' = InitStats
    /\ constructed' = TRUE
    /\ UNCHANGED <<init_arg, pc, data, tmp, cleaned_data, qc_report,
                   success_rate, ret, calls>>
    /\ UNCHANGED runvars

CtorSpec == CtorInit /\ [][Construct]_vars

\* ---------------------------------------------------- ArgoPipeline.run
\* self.max_workers, the default of the 'processing' section
max_workers == 2

Months == {<<2020, 1>>, <<2020, 2>>}
MonthLists == UNION {[1..n -> Months] : n \in 0..MaxMonths}

TaskDone(i) == task[i] \in {"True", "False", "raised"}
Running == {i \in DOMAIN task : task[i] = "running"}

\* run(...) is called on a constructed pipeline; an empty specific_months
\* stands for None as well, both are false in `if specific_months:`.
RunInit ==
    /\ stats = InitStats
    /\ pc = [t \in Threads |-> "idle"]
    /\ data = [t \in Threads |-> NoDict]
    /\ tmp = [t \in Threads |-> 0]
    /\ cleaned_data = [t \in Threads |-> NoDict]
    /\ qc_report = [t \in Threads |-> NoDict]
    /\ success_rate = [t \in Threads |-> ZeroRate]
    /\ ret = [t \in Threads |-> NoReturn]
    /\ calls = 0
    /\ init_arg = NoneArg
    /\ constructed = TRUE
    /\ config = OrEmpty(init_arg)
    /\ thresholds = ThresholdsOf(config)
    /\ specific_months \in MonthLists
    /\ run_pc = "setup"
    /\ months_to_process = <<>>
    /\ task = <<>>
    /\ next_future = 1
    /\ successful_months = 0
    /\ failed_months = <<>>
    /\ pending = "none"
    /\ db_calls = <<>>

\* self.db_manager.setup_database(): it commits, or it logs and re-raises
\* what went wrong.
Setup ==
    /\ run_pc = "setup"
    /\ db_calls' = Append(db_calls, "setup_database")
    /\ \/ /\ run_pc' = "discover"
          /\ UNCHANGED pending
       \/ /\ run_pc' = "except"
          /\ pending' = "Exception"
    /\ UNCHANGED <<specific_months, months_to_process, task, next_future,
                   successful_months, failed_months>>
    /\ UNCHANGED <<qcvars, cfgvars>>

\* months_to_process = specific_months or _discover_available_data(...),
\* which returns what it found, [] when it failed; `return` when empty.
Discover ==
    /\ run_pc = "discover"
    /\ \E found \in MonthLists :
          months_to_process' = IF specific_months # <<>>
                                 THEN specific_months ELSE found
    /\ run_pc' = IF months_to_process' = <<>> THEN "finally" ELSE "submit"
    /\ UNCHANGED <<specific_months, task, next_future, successful_months,
                   failed_months, pending, db_calls>>
    /\ UNCHANGED <<qcvars, cfgvars>>

\* _process_data_parallel: successful_months = 0, failed_months = [], and
\* one executor.submit per (year, month); submit raises RuntimeError when
\* no thread can be started, leaving the futures submitted before it.
Submit ==
    /\ run_pc = "submit"
    /\ successful_months' = 0
    /\ failed_months' = <<>>
    /\ next_future' = 1
    /\ \/ /\ task' = [i \in 1..Len(months_to_process) |-> "queued"]
          /\ run_pc' = "collect"
          /\ UNCHANGED pending
       \/ /\ \E k \in 0..(Len(months_to_process) - 1) :
                task' = [i \in 1..k |-> "queued"]
          /\ run_pc' = "shutdown"
          /\ pending' = "Exception"
    /\ UNCHANGED <<specific_months, months_to_process, db_calls>>
    /\ UNCHANGED <<qcvars, cfgvars>>

\* A free worker of the pool takes the oldest queued task.
StartTask(i) ==
    /\ i \in DOMAIN task
    /\ task[i] = "queued"
    /\ \A j \in 1..(i - 1) : task[j] # "queued"
    /\ Cardinality(Running) < max_workers
    /\ task' = [task EXCEPT ![i] = "running"]
    /\ UNCHANGED <<specific_months, run_pc, months_to_process, next_future,
                   successful_months, failed_months, pending, db_calls>>
    /\ UNCHANGED <<qcvars, cfgvars>>

\* _process_year_month ends: it returns True, returns False from its
\* except clause, or that clause itself raises.
FinishTask(i) ==
    /\ i \in DOMAIN task
    /\ task[i] = "running"
    /\ \E outcome \in {"True", "False", "raised"} :
          task' = [task EXCEPT ![i] = outcome]
    /\ UNCHANGED <<specific_months, run_pc, months_to_process, next_future,
                   successful_months, failed_months, pending, db_calls>>
    /\ UNCHANGED <<qcvars, cfgvars>>

\* A faulty variant of Collect: the except clause logs the exception and
\* forgets the month.
Collect_DropsRaised ==
    /\ run_pc = "collect"
    /\ next_future <= Len(task)
    /\ TaskDone(next_future)
    /\ IF task[next_future] = "True"
         THEN /\ successful_months' = successful_months + 1
              /\ UNCHANGED failed_months
         ELSE IF task[next_future] = "False"
         THEN /\ failed_months' =
                    Append(failed_months, months_to_process[next_future])
              /\ UNCHANGED successful_months
         ELSE UNCHANGED <<successful_months, failed_months>>
    /\ next_future' = next_future + 1
    /\ UNCHANGED <<specific_months, run_pc, months_to_process, task, pending,
                   db_calls>>
    /\ UNCHANGED <<qcvars, cfgvars>>

\* One turn of `for future in future_to_month`: future.result() waits for
\* the task, then the month is counted as successful or appended to
\* failed_months (result False, or an exception).
Collect ==
    /\ run_pc = "collect"
    /\ next_future <= Len(task)
    /\ TaskDone(next_future)
    /\ IF task[next_future] = "True"
         THEN /\ successful_months' = successful_months + 1
              /\ UNCHANGED failed_months
         ELSE /\ failed_months' =
                    Append(failed_months, months_to_process[next_future])
              /\ UNCHANGED successful_months
    /\ next_future' = next_future + 1
    /\ UNCHANGED <<specific_months, run_pc, months_to_process, task, pending,
                   db_calls>>
    /\ UNCHANGED <<qcvars, cfgvars>>

\* The loop is over: the `with` block is left.
EndCollect ==
    /\ run_pc = "collect"
    /\ next_future > Len(task)
    /\ run_pc' = "shutdown"
    /\ UNCHANGED <<specific_months, months_to_process, task, next_future,
                   successful_months, failed_months, pending, db_calls>>
    /\ UNCHANGED <<qcvars, cfgvars>>

\* ThreadPoolExecutor.__exit__: shutdown(wait=True) returns when every
\* submitted task has run; then the summary, or the exception goes on.
Shutdown ==
    /\ run_pc = "shutdown"
    /\ \A i \in DOMAIN task : TaskDone(i)
    /\ run_pc' = IF pending = "none" THEN "summary" ELSE "except"
    /\ UNCHANGED <<specific_months, months_to_process, task, next_future,
                   successful_months, failed_months, pending, db_calls>>
    /\ UNCHANGED <<qcvars, cfgvars>>

\* The summary log of _process_data_parallel.
Summary ==
    /\ run_pc = "summary"
    /\ run_pc' = "reports"
    /\ UNCHANGED <<specific_months, months_to_process, task, next_future,
                   successful_months, failed_months, pending, db_calls>>
    /\ UNCHANGED <<qcvars, cfgvars>>

\* _generate_final_reports: get_statistics(), get_database_statistics();
\* what they raise is caught there.
Reports ==
    /\ run_pc = "reports"
    /\ db_calls' = Append(db_calls, "get_database_statistics")
    /\ run_pc' = "finally"
    /\ UNCHANGED <<specific_months, months_to_process, task, next_future,
                   successful_months, failed_months, pending>>
    /\ UNCHANGED <<qcvars, cfgvars>>

\* A KeyboardInterrupt reaches the main thread inside the try body; inside
\* the `with` block it first passes the executor's __exit__.
Interrupt ==
    /\ run_pc \in {"setup", "discover", "submit", "collect", "summary",
                   "reports"}
    /\ pending' = "KeyboardInterrupt"
    /\ run_pc' = IF run_pc = "collect" THEN "shutdown" ELSE "except"
    /\ UNCHANGED <<specific_months, months_to_process, task, next_future,
                   successful_months, failed_months, db_calls>>
    /\ UNCHANGED <<qcvars, cfgvars>>

\* except KeyboardInterrupt: log.   except Exception: log, raise.
Except ==
    /\ run_pc = "except"
    /\ pending' = IF pending = "KeyboardInterrupt" THEN "none" ELSE pending
    /\ run_pc' = "finally"
    /\ UNCHANGED <<specific_months, months_to_process, task, next_future,
                   successful_months, failed_months, db_calls>>
    /\ UNCHANGED <<qcvars, cfgvars>>

\* A faulty variant of Finally: the pool is closed at the end of the normal
\* path only.
Finally_CloseOnSuccessOnly ==
    /\ run_pc = "finally"
    /\ db_calls' = IF pending = "none" /\ months_to_process # <<>>
                     THEN Append(db_calls, "close") ELSE db_calls
    /\ run_pc' = IF pending = "none" THEN "returned" ELSE "raised"
    /\ UNCHANGED <<specific_months, months_to_process, task, next_future,
                   successful_months, failed_months, pending>>
    /\ UNCHANGED <<qcvars, cfgvars>>

\* finally: log the runtime, self.db_manager.close(); then run returns, or
\* the exception the handler re-raised leaves it.
Finally ==
    /\ run_pc = "finally"
    /\ db_calls' = Append(db_calls, "close")
    /\ run_pc' = IF pending = "none" THEN "returned" ELSE "raised"
    /\ UNCHANGED <<specific_months, months_to_process, task, next_future,
                   successful_months, failed_months, pending>>
    /\ UNCHANGED <<qcvars, cfgvars>>

RunNext ==
    \/ Setup
    \/ Discover
    \/ Submit
    \/ \E i \in 1..MaxMonths : StartTask(i)
    \/ \E i \in 1..MaxMonths : FinishTask(i)
    \/ Collect
    \/ EndCollect
    \/ Shutdown
    \/ Summary
    \/ Reports
    \/ Interrupt
    \/ Except
    \/ Finally

RunSpec == RunInit /\ [][RunNext]_vars

\* Every thread that can take a step goes on taking steps: no call blocks
\* for ever, time.sleep(1) returns.
RunFairSpec == RunSpec /\ WF_vars(RunNext)

\* ===================================================================
\* The vocabulary of the properties below (spec sections 3, 4.3, 4.4).
\* ===================================================================

\* _get_default_thresholds: 'min_profile_length'
min_profile_length == 5

RECURSIVE SumOver(_, _)
SumOver(f, S) ==
    IF S = {} THEN 0
    ELSE LET k == CHOOSE x \in S : TRUE IN f[k] + SumOver(f, S \ {k})

\* The present (non-missing) points of one array, of a whole profile.
PresentIn(a) == Cardinality({i \in DOMAIN a : a[i] # Missing})
PresentCount(d) == SumOver([v \in TrackedVariables |-> PresentIn(d[v])],
                           TrackedVariables)

\* Arrays of unequal length, or present pressures that do not ascend.
UnequalLength(d) == \E v, w \in TrackedVariables : Len(d[v]) # Len(d[w])
NotAscending(d) ==
    \E i, j \in DOMAIN d.PRES :
        /\ i < j
        /\ d.PRES[i] # Missing
        /\ d.PRES[j] # Missing
        /\ d.PRES[i][1] > d.PRES[j][1]
Malformed(d) == UnequalLength(d) \/ NotAscending(d)

\* The label the cutoffs of section 4.3 give a percentage.
Classify(pct) ==
    IF pct >= 95 THEN "excellent"
    ELSE IF pct >= 85 THEN "good"
    ELSE IF pct >= 70 THEN "acceptable"
    ELSE IF pct >= 40 THEN "poor"
    ELSE "unusable"

InClean(t) == pc[t] \in {"load_total", "store_total", "build",
                         "load_processed", "store_processed"}
NoCallInProgress == \A t \in Threads : ~InClean(t)
Returned(t) == pc[t] = "returned"
StatsReturned(t) == pc[t] = "stats_returned"

\* C1: no counter update is lost.  When every thread has made one
\* clean_profile_data call, each on a profile of its own, and all the calls
\* have returned, total_profiles is the number of calls, whatever the
\* interleaving of the threads was.
C1_NoLostUpdate ==
    ( /\ calls = NThreads
      /\ \A t \in Threads : Returned(t)
      /\ \A t, u \in Threads : t # u => data[t] # data[u] )
    => stats.total_profiles = NThreads

\* C2: a snapshot never shows a partially applied update.  Every snapshot
\* get_statistics returns has total_profiles = profiles_processed +
\* profiles_rejected, and its success_rate_percent is the rate of the
\* counter values the snapshot itself contains.
C2_SnapshotAtomic ==
    \A t \in Threads :
        StatsReturned(t) =>
            LET c == ret[t].counters
                r == ret[t].success_rate_percent
            IN /\ c.total_profiles = c.profiles_processed + c.profiles_rejected
               /\ IF c.total_profiles = 0
                    THEN r = ZeroRate
                    ELSE r[1] * c.total_profiles
                            = 100 * c.profiles_processed * r[2]

\* C3: in a sequential run every counter is zero before the first call, and
\* whenever no call is in progress total_profiles is the number of calls
\* made and each call has added one to exactly one of profiles_processed
\* and profiles_rejected, so total_profiles = profiles_processed +
\* profiles_rejected.
C3_CountersSequential ==
    /\ calls = 0 => \A k \in StatKeys : stats[k] = 0
    /\ NoCallInProgress =>
          /\ stats.total_profiles = calls
          /\ stats.profiles_processed + stats.profiles_rejected = calls
          /\ stats.total_profiles
                = stats.profiles_processed + stats.profiles_rejected

\* C3 witness: the second call of a sequential run has returned.
C3_Witness == Returned(MainThread) /\ calls >= 2

\* C4: a call on a profile with arrays of unequal length, or whose pressures
\* do not ascend, fails with MalformedProfile: it returns no (cleaned
\* profile, report) pair and leaves every counter as it was (all zero when
\* it is the first call of the run).
C4_MalformedRejected ==
    \A t \in Threads :
        (Returned(t) /\ Malformed(data[t])) =>
            /\ ret[t].kind # "pair"
            /\ calls = 1 => stats = InitStats

\* C5: a profile with fewer present measurements than min_profile_length
\* still gets a report, its data_quality is unusable, and the call is
\* counted in profiles_rejected and not in profiles_processed.
C5_ShortProfileRejected ==
    \A t \in Threads :
        (Returned(t) /\ PresentCount(data[t]) < min_profile_length) =>
            /\ ret[t].kind = "pair"
            /\ ret[t].qc_report.data_quality = "unusable"
            /\ stats.profiles_rejected >= 1
            /\ calls = 1 => stats.profiles_processed = 0

\* C6: in every report the counts of flags_summary sum to
\* total_measurements, and total_measurements is the number of present
\* points of the input profile.
C6_FlagsSumToTotal ==
    \A t \in Threads :
        Returned(t) =>
            LET r == ret[t].qc_report
            IN /\ SumOver(r.flags_summary, DOMAIN r.flags_summary)
                     = r.total_measurements
               /\ r.total_measurements = PresentCount(data[t])

\* C7: the report depends on the raw profile alone.  Two calls on the same
\* raw profile, whatever the run statistics were at either call and whatever
\* ran in between, return reports equal in every field.
C7_ReportDeterministic ==
    \A t, u \in Threads :
        (Returned(t) /\ Returned(u) /\ data[t] = data[u]) =>
            ret[t].qc_report = ret[u].qc_report

\* C7 witness: two threads hold the results of calls on the same raw
\* profile, made while the counters stood at different values.
C7_Witness ==
    \E t, u \in Threads :
        /\ t # u
        /\ Returned(t) /\ Returned(u)
        /\ data[t] = data[u]
        /\ calls >= 3

\* C8: for every tracked variable the cleaned array is as long as the raw
\* one, and each position holds the raw value or the missing sentinel.
C8_CleanedAligned ==
    \A t \in Threads :
        Returned(t) =>
            \A v \in TrackedVariables :
                LET raw == data[t][v]
                    cln == ret[t].cleaned_data[v]
                IN /\ Len(cln) = Len(raw)
                   /\ \A i \in 1..Len(raw) : cln[i] \in {raw[i], Missing}

\* C8 witness: a call has returned for a profile whose temperature array
\* holds a missing point followed by a present one.
C8_Witness ==
    /\ Returned(MainThread)
    /\ Len(data[MainThread].TEMP) = 2
    /\ data[MainThread].TEMP[1] = Missing
    /\ data[MainThread].TEMP[2] # Missing

\* C9: in a sequential run get_statistics returns every counter at its
\* current value, with success_rate_percent = 100 * profiles_processed /
\* total_profiles, and 0 when total_profiles = 0.
C9_StatisticsSequential ==
    StatsReturned(MainThread) =>
        LET r == ret[MainThread].success_rate_percent
        IN /\ ret[MainThread].counters = stats
           /\ IF stats.total_profiles = 0
                THEN r = ZeroRate
                ELSE r[1] * stats.total_profiles
                        = 100 * stats.profiles_processed * r[2]

\* C9 witness: a snapshot taken after two calls have been counted.
C9_Witness ==
    /\ StatsReturned(MainThread)
    /\ ret[MainThread].counters.total_profiles >= 2

\* C10: the data_quality of a report is the label its own
\* good_data_percentage gives under the inclusive cutoffs 95 / 85 / 70 / 40.
C10_QualityMatchesPercentage ==
    \A t \in Threads :
        Returned(t) =>
            ret[t].qc_report.data_quality
                = Classify(ret[t].qc_report.good_data_percentage)

\* C10 witness: a report whose percentage sits on a cutoff, where the
\* inclusive bound decides the label.
C10_Witness ==
    /\ Returned(MainThread)
    /\ ret[MainThread].qc_report.good_data_percentage = 85
    /\ stats.profiles_rejected = 0

\* C11: good_data_percentage is 100 * good_count / present points, where
\* good_count counts the present points whose final flag is good or
\* probably-good; a profile whose values are all missing gets
\* total_measurements 0, good_data_percentage 0 and data_quality unusable.
C11_PercentageOfPresent ==
    \A t \in Threads :
        Returned(t) =>
            LET r == ret[t].qc_report
                n == PresentCount(data[t])
            IN IF n = 0
                 THEN /\ r.total_measurements = 0
                      /\ r.good_data_percentage = 0
                      /\ r.data_quality = "unusable"
                 ELSE \E good \in 0..n :
                        r.good_data_percentage * n = 100 * good

\* The QCFlag codes and their severity, missing > bad > probably-bad >
\* probably-good > good > no-QC (spec section 3).
Severity(f) ==
    CASE f = "9" -> 5
      [] f = "4" -> 4
      [] f = "3" -> 3
      [] f = "2" -> 2
      [] f = "1" -> 1
      [] f = "0" -> 0

MostSevere(F) == CHOOSE f \in F : \A g \in F : Severity(g) <= Severity(f)

\* The flags the detectors emit for point i of variable v: the body of
\* clean_profile_data runs no detector, so there are none.
DetectorFlags(d, v, i) == {}

\* The final flag the merge rule gives a point.
FinalFlag(d, v, i) ==
    IF d[v][i] = Missing THEN "9"
    ELSE IF DetectorFlags(d, v, i) = {} THEN "1"
    ELSE MostSevere(DetectorFlags(d, v, i))

Points(d) == {<<v, i>> \in TrackedVariables \X (1..MaxLen) : i <= Len(d[v])}

FlagCount(summary, f) == IF f \in DOMAIN summary THEN summary[f] ELSE 0

\* C12: the final flag of every point is the most severe flag a detector
\* emitted for it, and good for a present point no detector flagged: the
\* report counts under each flag exactly the present points whose merged
\* flag it is.
C12_MostSevereFlagWins ==
    \A t \in Threads :
        Returned(t) =>
            \A f \in {"1", "2", "3", "4"} :
                FlagCount(ret[t].qc_report.flags_summary, f)
                    = Cardinality({q \in Points(data[t]) :
                                     /\ data[t][q[1]][q[2]] # Missing
                                     /\ FinalFlag(data[t], q[1], q[2]) = f})

\* What the configuration supplied for threshold key k, if anything.
Supplies(arg, k) ==
    /\ arg.kind = "dict"
    /\ "thresholds" \in DOMAIN arg.d
    /\ k \in DOMAIN arg.d.thresholds

\* C13: whatever configuration the constructor is given, the threshold
\* policy has a value for every tracked variable and every scalar: the
\* supplied value for a supplied key, the documented default for the rest.
C13_ThresholdDefaults ==
    constructed =>
        \A k \in ThresholdKeys :
            /\ k \in DOMAIN thresholds
            /\ thresholds[k] = IF Supplies(init_arg, k)
                                 THEN init_arg.d.thresholds[k]
                                 ELSE DefaultThresholds[k]

\* The months of the tasks that did not return True, in submission order.
RECURSIVE FailedOf(_, _, _)
FailedOf(months, tasks, i) ==
    IF i > Len(tasks) THEN <<>>
    ELSE IF tasks[i] = "True" THEN FailedOf(months, tasks, i + 1)
    ELSE <<months[i]>> \o FailedOf(months, tasks, i + 1)

\* C14: at the summary log of _process_data_parallel every submitted task
\* has been collected and counted exactly once, as successful when it
\* returned True and in failed_months when it returned False or raised, so
\* successful_months + len(failed_months) = len(months_to_process), in
\* whatever order the workers finished.
C14_EveryTaskCountedOnce ==
    run_pc = "summary" =>
        /\ Len(task) = Len(months_to_process)
        /\ next_future = Len(task) + 1
        /\ successful_months
              = Cardinality({i \in DOMAIN task : task[i] = "True"})
        /\ failed_months = FailedOf(months_to_process, task, 1)
        /\ successful_months + Len(failed_months) = Len(months_to_process)

\* C14 witness: the summary is reached after a task raised and a task
\* submitted after it returned True.
C14_Witness ==
    /\ run_pc = "summary"
    /\ \E i, j \in DOMAIN task :
          i < j /\ task[i] = "raised" /\ task[j] = "True"

Closes == Cardinality({i \in DOMAIN db_calls : db_calls[i] = "close"})
RunExited == run_pc \in {"returned", "raised"}

====
